---- MODULE Spec2Model ----
(***************************************************************************)
(* Custody core of the parcel tracking application (src/grn): GRN          *)
(* containers and their lines, OTP issue / resend / redemption, delivery   *)
(* notes, GRN deletion and the three warehouse stages.  Each request       *)
(* handler of views.py is one atomic action over the relational tables     *)
(* declared in models.py.                                                   *)
(***************************************************************************)
EXTENDS Integers, Sequences, FiniteSets, TLC

\* ------------------------------------------------------------------ bounds
MaxGrns  == 2      \* GRN primary keys handed out in one behaviour
MaxLines == 3      \* GRNLine primary keys handed out in one behaviour
MaxRows  == 2      \* formset rows of one create_grn request
MaxSel   == 2      \* ids selected in one warehouse stage request
NumCodes == 2      \* distinct OTP codes generate_otp can return (abstracts 10^6)
MaxTime  == 25     \* last clock value, in hours

\* ------------------------------------------------------- program constants
ExpiryHours == 24

\* --------------------------------------------------------- fixed reference data
NoLoc  == "none"       \* a NULL location foreign key / an absent session key
NoUser == "nobody"     \* a NULL user foreign key
NoFloor == "null"      \* WarehouseInward.floor / rack still NULL
NoTime == -1           \* a NULL DateTimeField

Locations == {"W", "A"}

is_warehouse(loc) == loc = "W"

Users == {"admin", "recep", "whusr"}

is_staff(u) == u = "admin"

\* none of the users is a superuser
is_superuser(u) == FALSE

\* the access test passed by every user
AdminRequiredOpen(u) == TRUE

\* AdminRequiredMixin.test_func, for a logged-in user
AdminRequired(u) == is_staff(u) \/ is_superuser(u)

user_location(u) ==
    CASE u = "recep" -> "A"
      [] u = "whusr" -> "W"
      [] OTHER       -> NoLoc

Receivers == {"rcv"}

\* the users the stage 1 requests are issued by: one without a location,
\* one of a collection point
InwardUsers == {"admin", "recep"}

\* the users the floor requests (stages 2 and 3) are issued by
FloorUsers == {"recep"}

Codes == 1..NumCodes

VARIABLES
    grns,      \* GRN rows
    lines,     \* GRNLine rows
    otps,      \* OTP rows
    dns,       \* DN rows
    inwards,   \* WarehouseInward rows
    nextId,    \* next primary key of each table
    session,   \* current_location_id of the admin's session
    now,       \* timezone.now(), in hours
    reqs       \* the requests being served side by side, one per worker

vars == <<grns, lines, otps, dns, inwards, nextId, session, now, reqs>>

\* the database as one value
DB == [grns |-> grns, lines |-> lines, otps |-> otps, dns |-> dns,
       inwards |-> inwards, nextId |-> nextId]

\* ------------------------------------------------------------ table helpers
Max(S) == CHOOSE x \in S : \A y \in S : y <= x

RECURSIVE OrderByLineNumber(_)
\* a queryset of lines under order_by('line_number'), as a list
OrderByLineNumber(S) ==
    IF S = {} THEN <<>>
    ELSE LET m == CHOOSE x \in S : \A y \in S :
                     \/ x.line_number < y.line_number
                     \/ x.line_number = y.line_number /\ x.id <= y.id
         IN  <<m>> \o OrderByLineNumber(S \ {m})

GrnIds(gs) == {g.id : g \in gs}

GrnById(gs, id) == CHOOSE g \in gs : g.id = id

LinesOf(ls, g) == {l \in ls : l.grn = g}

LineById(ls, id) == CHOOSE l \in ls : l.id = id

HasDN(ds, lid) == \E d \in ds : d.grn_line = lid

HasInward(ws, lid) == \E w \in ws : w.grn_line = lid

OtpsOf(os, g) == {o \in os : o.grn = g}

\* GRN.total_lines
total_lines(ls, g) == Cardinality(LinesOf(ls, g))

\* a GRN that never counts as delivered
is_delivered_never(ls, ds, g) == FALSE

\* GRN.is_delivered
is_delivered(ls, ds, g) == {l \in LinesOf(ls, g) : ~HasDN(ds, l.id)} = {}

\* an OTP that never expires
is_expired_never(o, t) == FALSE

\* the expiry test an hour late
is_expired_late(o, t) == t > o.created_at + ExpiryHours + 1

\* OTP.is_expired
is_expired(o, t) == t > o.created_at + ExpiryHours

\* the location check passed by everybody
has_location_permission_open(u, loc, sess) == TRUE

\* has_location_permission(user, location, session)
has_location_permission(u, loc, sess) ==
    IF is_staff(u)
    THEN IF sess # NoLoc
         THEN IF sess \in Locations THEN loc = sess ELSE FALSE
         ELSE TRUE
    ELSE IF user_location(u) # NoLoc THEN user_location(u) = loc ELSE FALSE

\* ------------------------------------------------------------ requests
\* what a handler answers: the branch taken, the number of items processed,
\* the collected per-item errors, the ids of GRNs it created, the mails sent,
\* and the list of what it saved (the line objects of a create_grn, the
\* ids of the lines a redemption or a warehouse stage counted)
Resp(result) ==
    [result |-> result, count |-> 0, errors |-> <<>>, new_grns |-> <<>>,
     mails |-> <<>>, saved |-> <<>>]

\* the outcome of one request: the database it leaves and its response
Out(d, resp) == [db |-> d, resp |-> resp]

\* the writes of the block kept
RollbackLost(before, attempted) == attempted

\* leaving a transaction.atomic() block by an exception (or with the
\* connection marked needs_rollback) restores the database of its start;
\* primary-key counters are restored with it
Rollback(before, attempted) == before

Err(item, kind) == [item |-> item, kind |-> kind]

\* a mail that reached the receiver of GRN g, with the code its body embeds
Mail(g, code) == [grn |-> g, otp |-> code]

\* the two workers of the claims about two requests served side by side
Workers == {1, 2}

\* a worker's request: the handler it runs, how far it got ("idle", "read"
\* once its precondition reads are made, "done" once it has committed), its
\* inputs, the objects its reads returned, and its answer; "refused" when the
\* reads themselves made it answer
Request(kind, phase, actor, sel, read, resp) ==
    [kind |-> kind, phase |-> phase, actor |-> actor, sel |-> sel,
     read |-> read, resp |-> resp]

Idle == Request("none", "idle", NoUser, <<>>, <<>>, Resp("none"))

\* the request is executed and its transaction outcome becomes the database
Apply(out) ==
    /\ grns' = out.db.grns
    /\ lines' = out.db.lines
    /\ otps' = out.db.otps
    /\ dns' = out.db.dns
    /\ inwards' = out.db.inwards
    /\ nextId' = out.db.nextId
    /\ UNCHANGED <<session, now, reqs>>

\* ------------------------------------------------------------ initial state
Init ==
    /\ grns = {}
    /\ lines = {}
    /\ otps = {}
    /\ dns = {}
    /\ inwards = {}
    /\ nextId = [grn |-> 1, line |-> 1, otp |-> 1, dn |-> 1, inward |-> 1]
    /\ session = NoLoc
    /\ now = 0
    /\ reqs = [w \in Workers |-> Idle]

\* ------------------------------------------------------------ change_location
ChangeLocation(loc) ==
    /\ session' = loc
    /\ UNCHANGED <<grns, lines, otps, dns, inwards, nextId, now, reqs>>

\* ------------------------------------------------------------ passage of time
TickSteps == {ExpiryHours, ExpiryHours + 1}

Tick(d) ==
    /\ now + d <= MaxTime
    /\ now' = now + d
    /\ UNCHANGED <<grns, lines, otps, dns, inwards, nextId, session, reqs>>

\* ------------------------------------------------------------ create_grn
\* a submitted formset row: "filled" has the required courier_name and
\* parcel_type, "blank" is an untouched extra form (cleaned_data is empty),
\* "deleted" is a filled row with DELETE ticked, "partial" is a row with only
\* optional fields (remark, courier_id, sender_location) typed in, which
\* lacks the required ones
RowKinds == {"filled", "blank", "deleted", "partial"}

\* formset.is_valid(): rows marked for deletion are not validated
FormsetValid(rows) ==
    \A i \in 1..Len(rows) : rows[i] # "partial"

\* cleaned_data and not cleaned_data.get('DELETE')
Submitted(row) == row \notin {"blank", "deleted"}

\* any(cleaned_data.get(field) for field in ['sender_name', 'phone',
\* 'courier_name', 'parcel_type'])
AnyKeyField(row) == row \in {"filled", "deleted"}

RowSeqs == UNION {[1..n -> RowKinds] : n \in 0..MaxRows}

\* the filter on cleaned_data left out: every row becomes a line
RetainedRowsUnfiltered(rows) == [i \in 1..Len(rows) |-> i]

\* the formset rows that become lines, as their positions in the formset
RetainedRows(rows) ==
    SelectSeq([i \in 1..Len(rows) |-> i],
              LAMBDA i : Submitted(rows[i]) /\ AnyKeyField(rows[i]))

\* the list `lines` of form_valid: the k-th saved line object, with the
\* formset row it was built from
SavedLines(first, rows) ==
    [k \in 1..Len(RetainedRows(rows)) |->
        [row |-> RetainedRows(rows)[k], id |-> first + k - 1, line_number |-> k]]

\* line_number = 1, 2, ... in input order
NewLines(first, g, n) ==
    {[id |-> first + k - 1, grn |-> g, line_number |-> k] : k \in 1..n}

\* OTP.objects.create(otp=code, grn=g): valid defaults to True, created_at to now
NewOtp(id, g, code, t) ==
    [id |-> id, grn |-> g, otp |-> code, created_at |-> t, valid |-> TRUE]

\* an OTP issued whatever the delivery location
IssuesOtpAlways(loc) == TRUE

\* if not grn.delivery_location.is_warehouse
IssuesOtpAtCreation(loc) == ~is_warehouse(loc)

GRNCreateRun(actor, receiver, loc, rows, code, mailOk) ==
    LET n   == Len(RetainedRows(rows))
        gid == nextId.grn
        withLines ==
            [DB EXCEPT
               !.grns = @ \cup {[id |-> gid, receiver |-> receiver,
                                 delivery_location |-> loc,
                                 created_by |-> actor, place |-> NoLoc]},
               !.lines = @ \cup NewLines(nextId.line, gid, n),
               !.nextId.grn = @ + 1,
               !.nextId.line = @ + n]
        withOtp ==
            [withLines EXCEPT
               !.otps = @ \cup {NewOtp(nextId.otp, gid, code, now)},
               !.nextId.otp = @ + 1]
    IN
    IF ~AdminRequired(actor) THEN Out(DB, Resp("denied"))
    ELSE IF ~FormsetValid(rows) THEN Out(DB, Resp("invalid"))
    ELSE IF n = 0
    THEN \* the header row was inserted and deleted again, then committed
         Out([DB EXCEPT !.nextId.grn = @ + 1], Resp("no_lines"))
    ELSE IF loc = NoLoc
    THEN \* grn.delivery_location is None: the attribute access raises
         Out(Rollback(DB, withLines), Resp("error"))
    ELSE IF ~IssuesOtpAtCreation(loc)
    THEN Out(withLines, [Resp("ok") EXCEPT
                           !.count = n, !.new_grns = <<gid>>,
                           !.saved = SavedLines(nextId.line, rows)])
    ELSE IF ~mailOk
    THEN \* send_otp_email re-raises
         Out(Rollback(DB, withOtp), Resp("error"))
    ELSE Out(withOtp, [Resp("ok") EXCEPT
                         !.count = n, !.new_grns = <<gid>>,
                         !.mails = <<Mail(gid, code)>>,
                         !.saved = SavedLines(nextId.line, rows)])

GRNCreate(actor, receiver, loc, rows, code, mailOk) ==
    /\ nextId.grn <= MaxGrns
    /\ nextId.line + Len(RetainedRows(rows)) - 1 <= MaxLines
    /\ Apply(GRNCreateRun(actor, receiver, loc, rows, code, mailOk))

\* the WarehouseInward records of the deleted lines left behind
CascadeDeleteKeepsInwards(d, pk) ==
    [d EXCEPT
       !.grns = {g \in @ : g.id # pk},
       !.lines = {l \in @ : l.grn # pk},
       !.otps = {o \in @ : o.grn # pk}]

\* ------------------------------------------------------------ delete_grn
\* grn.delete(): cascades to the lines, the OTP, and the lines' DN and
\* WarehouseInward rows
CascadeDelete(d, pk) ==
    LET gone == {l.id : l \in LinesOf(d.lines, pk)} IN
    [d EXCEPT
       !.grns = {g \in @ : g.id # pk},
       !.lines = {l \in @ : l.grn # pk},
       !.otps = {o \in @ : o.grn # pk},
       !.dns = {x \in @ : x.grn_line \notin gone},
       !.inwards = {w \in @ : w.grn_line \notin gone}]

\* the check for delivered lines left out
HasDeliveredLinesNever(ls, ds, pk) == FALSE

\* the refusal only for a GRN delivered in full
HasDeliveredLinesAll(ls, ds, pk) == \A l \in LinesOf(ls, pk) : HasDN(ds, l.id)

\* grn.lines.filter(dn__isnull=False).exists()
HasDeliveredLines(ls, ds, pk) == \E l \in LinesOf(ls, pk) : HasDN(ds, l.id)

GRNDeleteRun(actor, pk) ==
    IF ~AdminRequired(actor) THEN Out(DB, Resp("denied"))
    ELSE IF pk \notin GrnIds(grns) THEN Out(DB, Resp("not_found"))
    ELSE IF ~has_location_permission(actor, GrnById(grns, pk).delivery_location, session)
    THEN Out(DB, Resp("forbidden"))
    ELSE IF HasDeliveredLines(lines, dns, pk)
    THEN Out(DB, Resp("has_delivered"))
    ELSE Out(CascadeDelete(DB, pk),
             [Resp("ok") EXCEPT !.count = total_lines(lines, pk)])

GRNDelete(actor, pk) ==
    /\ pk \in 1..MaxGrns
    /\ Apply(GRNDeleteRun(actor, pk))

\* ------------------------------------------------------------ verify_otp
\* OTP.objects.filter(otp=otp_code, valid=True)
MatchingOtps(os, code) == {o \in os : o.otp = code /\ o.valid}

\* every line of the GRN, delivered or not
UndeliveredLinesUnfiltered(ls, ds, g) == LinesOf(ls, g)

\* grn.lines.filter(dn__isnull=True)
UndeliveredLines(ls, ds, g) == {l \in LinesOf(ls, g) : ~HasDN(ds, l.id)}

\* every DN marked as a delivery from the warehouse floor
CreateDNsFromFloor(d, lns, fwi) ==
    [d EXCEPT
       !.dns = @ \cup {[id |-> d.nextId.dn + k - 1, grn_line |-> lns[k].id,
                        from_warehouse_inward |-> TRUE] : k \in 1..Len(lns)},
       !.nextId.dn = @ + Len(lns)]

\* the loop left after its first iteration
CreateDNsFirstOnly(d, lns, fwi) ==
    IF lns = <<>> THEN d
    ELSE [d EXCEPT
            !.dns = @ \cup {[id |-> d.nextId.dn, grn_line |-> Head(lns).id,
                             from_warehouse_inward |-> fwi]},
            !.nextId.dn = @ + 1]

\* DN.objects.create(grn_line=line, ...) for each line of the list, in order
RECURSIVE CreateDNs(_, _, _)
CreateDNs(d, lns, fwi) ==
    IF lns = <<>> THEN d
    ELSE CreateDNs([d EXCEPT
                      !.dns = @ \cup {[id |-> d.nextId.dn,
                                       grn_line |-> Head(lns).id,
                                       from_warehouse_inward |-> fwi]},
                      !.nextId.dn = @ + 1],
                   Tail(lns), fwi)

\* every OTP row invalidated with the redeemed one
InvalidateOtpAll(os, o) == {[x EXCEPT !.valid = FALSE] : x \in os}

\* the OTP row left as it was
InvalidateOtpSkipped(os, o) == os

\* otp.valid = False; otp.save()
InvalidateOtp(os, o) == (os \ {o}) \cup {[o EXCEPT !.valid = FALSE]}

\* a redemption that takes the oldest of the valid rows holding the code
OTPVerifyRunFirstMatch(actor, code, grn_id) ==
    LET m == MatchingOtps(otps, code) IN
    IF ~AdminRequired(actor) THEN Out(DB, Resp("denied"))
    ELSE IF m = {} THEN Out(DB, Resp("not_found"))
    ELSE LET o   == CHOOSE x \in m : \A y \in m : x.id <= y.id
             g   == GrnById(grns, o.grn)
             und == OrderByLineNumber(UndeliveredLines(lines, dns, g.id))
         IN  IF ~has_location_permission(actor, g.delivery_location, session)
             THEN Out(DB, Resp("forbidden"))
             ELSE IF is_expired(o, now) THEN Out(DB, Resp("expired"))
             ELSE IF und = <<>> THEN Out(DB, Resp("already_delivered"))
             ELSE Out([CreateDNs(DB, und, FALSE) EXCEPT
                         !.otps = InvalidateOtp(@, o)],
                      [Resp("ok") EXCEPT !.count = Len(und)])

\* a redemption that looks for the code among the OTPs of the GRN named by
\* grn_id only
OTPVerifyRunByGrnId(actor, code, grn_id) ==
    LET m == {x \in MatchingOtps(otps, code) : x.grn = grn_id} IN
    IF ~AdminRequired(actor) THEN Out(DB, Resp("denied"))
    ELSE IF m = {} THEN Out(DB, Resp("not_found"))
    ELSE IF Cardinality(m) > 1 THEN Out(DB, Resp("error"))
    ELSE LET o   == CHOOSE x \in m : TRUE
             g   == GrnById(grns, o.grn)
             und == OrderByLineNumber(UndeliveredLines(lines, dns, g.id))
         IN  IF ~has_location_permission(actor, g.delivery_location, session)
             THEN Out(DB, Resp("forbidden"))
             ELSE IF is_expired(o, now) THEN Out(DB, Resp("expired"))
             ELSE IF und = <<>> THEN Out(DB, Resp("already_delivered"))
             ELSE Out([CreateDNs(DB, und, FALSE) EXCEPT
                         !.otps = InvalidateOtp(@, o)],
                      [Resp("ok") EXCEPT !.count = Len(und)])

OTPVerifyRun(actor, code, grn_id) ==
    IF ~AdminRequired(actor) THEN Out(DB, Resp("denied"))
    ELSE IF MatchingOtps(otps, code) = {} THEN Out(DB, Resp("not_found"))
    ELSE IF Cardinality(MatchingOtps(otps, code)) > 1
    THEN \* get() raises MultipleObjectsReturned
         Out(DB, Resp("error"))
    ELSE LET o   == CHOOSE x \in MatchingOtps(otps, code) : TRUE
             g   == GrnById(grns, o.grn)
             und == OrderByLineNumber(UndeliveredLines(lines, dns, g.id))
         IN  IF ~has_location_permission(actor, g.delivery_location, session)
             THEN Out(DB, Resp("forbidden"))
             ELSE IF is_expired(o, now) THEN Out(DB, Resp("expired"))
             ELSE IF und = <<>> THEN Out(DB, Resp("already_delivered"))
             ELSE Out([CreateDNs(DB, und, FALSE) EXCEPT
                         !.otps = InvalidateOtp(@, o)],
                      [Resp("ok") EXCEPT !.count = Len(und)])

OTPVerify(actor, code, grn_id) ==
    /\ code \in Codes
    /\ Apply(OTPVerifyRun(actor, code, grn_id))

\* ------------------------------------------------------------ resend_otp
\* a new row inserted whether or not the GRN has one
GetOrRegenerateInsert(os, id, g, code, t) ==
    os \cup {NewOtp(Max({id} \cup {o.id + 1 : o \in os}), g, code, t)}

\* an existing row regenerated without a new created_at
GetOrRegenerateSameAge(os, id, g, code, t) ==
    IF OtpsOf(os, g) = {}
    THEN os \cup {NewOtp(id, g, code, t)}
    ELSE LET o == CHOOSE x \in OtpsOf(os, g) : TRUE IN
         (os \ {o}) \cup {[o EXCEPT !.otp = code, !.valid = TRUE]}

\* OTP.objects.get_or_create(grn=grn, ...), then regeneration of an existing row
GetOrRegenerate(os, id, g, code, t) ==
    IF OtpsOf(os, g) = {}
    THEN os \cup {NewOtp(id, g, code, t)}
    ELSE LET o == CHOOSE x \in OtpsOf(os, g) : TRUE IN
         (os \ {o}) \cup {[o EXCEPT !.otp = code, !.valid = TRUE,
                                     !.created_at = t]}

ResendOTPRun(actor, grn_id, code, mailOk) ==
    LET attempted ==
            [DB EXCEPT
               !.otps = GetOrRegenerate(@, nextId.otp, grn_id, code, now),
               !.nextId.otp = IF OtpsOf(otps, grn_id) = {} THEN @ + 1 ELSE @]
    IN
    IF ~is_staff(actor) THEN Out(DB, Resp("denied"))
    ELSE IF grn_id \notin GrnIds(grns) THEN Out(DB, Resp("not_found"))
    ELSE IF ~has_location_permission(actor, GrnById(grns, grn_id).delivery_location, session)
    THEN Out(DB, Resp("forbidden"))
    ELSE IF is_delivered(lines, dns, grn_id)
    THEN Out(DB, Resp("already_delivered"))
    ELSE IF ~mailOk
    THEN \* send_resend_otp_email raises inside the atomic block
         Out(Rollback(DB, attempted), Resp("error"))
    ELSE Out(attempted,
             [Resp("ok") EXCEPT !.mails = <<Mail(grn_id, code)>>])

ResendOTP(actor, grn_id, code, mailOk) ==
    /\ code \in Codes
    /\ Apply(ResendOTPRun(actor, grn_id, code, mailOk))

\* ------------------------------------------------------------ stage 1: inward
SelSeqs(ids) == UNION {[1..n -> ids] : n \in 0..MaxSel}

\* grns_to_process: one entry per original GRN, in order of first selection,
\* each with the line objects as read during validation
AddToGroups(groups, line) ==
    IF \E k \in 1..Len(groups) : groups[k].grn = line.grn
    THEN [k \in 1..Len(groups) |->
            IF groups[k].grn = line.grn
            THEN [groups[k] EXCEPT !.lines = Append(@, line)]
            ELSE groups[k]]
    ELSE Append(groups, [grn |-> line.grn, lines |-> <<line>>])

\* the validation loop over selected_lines
RECURSIVE ValidateLines(_, _)
ValidateLines(sel, acc) ==
    IF sel = <<>> THEN acc
    ELSE LET id == Head(sel) IN
         IF ~\E l \in lines : l.id = id
         THEN ValidateLines(Tail(sel),
                  [acc EXCEPT !.errors = Append(@, Err(id, "not_found"))])
         ELSE LET line == LineById(lines, id) IN
              IF ~is_warehouse(GrnById(grns, line.grn).delivery_location)
              THEN ValidateLines(Tail(sel),
                       [acc EXCEPT !.errors = Append(@, Err(id, "not_warehouse"))])
              ELSE IF HasInward(inwards, id)
              THEN ValidateLines(Tail(sel),
                       [acc EXCEPT !.errors = Append(@, Err(id, "already_inwarded"))])
              ELSE ValidateLines(Tail(sel),
                       [acc EXCEPT !.groups = AddToGroups(@, line)])

\* unique_together = ['grn', 'line_number'], checked when a row is written
UniqueViolation(ls, row) ==
    \E l \in ls : l.id # row.id /\ l.grn = row.grn
                   /\ l.line_number = row.line_number

\* WarehouseInward.objects.create(grn_line=line, inwarded_by=user)
NewInward(id, lid, user) ==
    [id |-> id, grn_line |-> lid, inwarded_by |-> user,
     floor |-> NoFloor, rack |-> NoFloor,
     assigned_to_floor_by |-> NoUser, assigned_to_floor_at |-> NoTime,
     floor_remark |-> NoFloor, delivered_to_receiver |-> FALSE]

\* the moved lines numbered in the order of the selection, as if save()
\* assigned each the next free line number of the new GRN
RECURSIVE MoveLinesAppended(_, _, _, _)
MoveLinesAppended(tx, lns, new_grn, actor) ==
    IF lns = <<>> THEN tx
    ELSE LET line == Head(lns)
             row  == [line EXCEPT
                        !.grn = new_grn,
                        !.line_number =
                            Cardinality(LinesOf(tx.db.lines, new_grn)) + 1]
             moved == [tx EXCEPT
                         !.db.lines = {l \in @ : l.id # line.id} \cup {row}]
         IN  IF HasInward(moved.db.inwards, line.id)
             THEN [moved EXCEPT !.failed = TRUE, !.needs_rollback = TRUE]
             ELSE MoveLinesAppended(
                      [moved EXCEPT
                         !.db.inwards = @ \cup
                             {NewInward(moved.db.nextId.inward, line.id, actor)},
                         !.db.nextId.inward = @ + 1,
                         !.saved = Append(@, line.id),
                         !.count = @ + 1],
                      Tail(lns), new_grn, actor)

\* the inward records written with the lines left in their GRN
RECURSIVE MoveLinesInPlace(_, _, _, _)
MoveLinesInPlace(tx, lns, new_grn, actor) ==
    IF lns = <<>> THEN tx
    ELSE IF HasInward(tx.db.inwards, Head(lns).id)
    THEN [tx EXCEPT !.failed = TRUE, !.needs_rollback = TRUE]
    ELSE MoveLinesInPlace(
             [tx EXCEPT
                !.db.inwards = @ \cup
                    {NewInward(tx.db.nextId.inward, Head(lns).id, actor)},
                !.db.nextId.inward = @ + 1,
                !.saved = Append(@, Head(lns).id),
                !.count = @ + 1],
             Tail(lns), new_grn, actor)

\* the loop over lines_to_move; tx.failed is set when a write raises, which
\* also marks the enclosing transaction for rollback
RECURSIVE MoveLines(_, _, _, _)
MoveLines(tx, lns, new_grn, actor) ==
    IF lns = <<>> THEN tx
    ELSE LET line == Head(lns)
             row  == [line EXCEPT !.grn = new_grn]
         IN  IF UniqueViolation(tx.db.lines, row)
             THEN [tx EXCEPT !.failed = TRUE, !.needs_rollback = TRUE]
             ELSE LET moved == [tx EXCEPT
                                  !.db.lines = {l \in @ : l.id # line.id} \cup {row}]
                  IN  IF HasInward(moved.db.inwards, line.id)
                      THEN [moved EXCEPT !.failed = TRUE, !.needs_rollback = TRUE]
                      ELSE MoveLines(
                               [moved EXCEPT
                                  !.db.inwards = @ \cup
                                      {NewInward(moved.db.nextId.inward, line.id, actor)},
                                  !.db.nextId.inward = @ + 1,
                                  !.saved = Append(@, line.id),
                                  !.count = @ + 1],
                               Tail(lns), new_grn, actor)

\* for idx, line in enumerate(queryset, start=1): renumber where it differs
RECURSIVE RenumberFrom(_, _, _)
RenumberFrom(tx, sorted, idx) ==
    IF idx > Len(sorted) THEN tx
    ELSE IF sorted[idx].line_number = idx THEN RenumberFrom(tx, sorted, idx + 1)
    ELSE LET row == [sorted[idx] EXCEPT !.line_number = idx] IN
         IF UniqueViolation(tx.db.lines, row)
         THEN [tx EXCEPT !.failed = TRUE, !.needs_rollback = TRUE]
         ELSE RenumberFrom(
                  [tx EXCEPT !.db.lines = {l \in @ : l.id # row.id} \cup {row}],
                  sorted, idx + 1)

\* a GRN left without lines removed instead of renumbered
RenumberDropsEmptied(tx, g) ==
    IF tx.failed THEN tx
    ELSE IF LinesOf(tx.db.lines, g) = {}
    THEN [tx EXCEPT !.db.grns = {x \in @ : x.id # g},
                    !.db.otps = {o \in @ : o.grn # g}]
    ELSE RenumberFrom(tx, OrderByLineNumber(LinesOf(tx.db.lines, g)), 1)

\* the renumbering pass left out
RenumberSkipped(tx, g) == tx

Renumber(tx, g) ==
    IF tx.failed THEN tx
    ELSE RenumberFrom(tx, OrderByLineNumber(LinesOf(tx.db.lines, g)), 1)

\* the inner try block: OTP for the new GRN, then the transfer mail
IssueTransferOtp(tx, new_grn, code, mailOk) ==
    IF tx.failed THEN tx
    ELSE LET issued == [tx EXCEPT
                          !.db.otps = @ \cup
                              {NewOtp(tx.db.nextId.otp, new_grn, code, now)},
                          !.db.nextId.otp = @ + 1]
         IN  IF mailOk
             THEN [issued EXCEPT
                     !.mails = Append(@, Mail(new_grn, code)),
                     !.new_grns = Append(@, new_grn)]
             ELSE [issued EXCEPT
                     !.errors = Append(@, Err(new_grn, "otp_error"))]

\* one iteration of the loop over grns_to_process
ProcessGroup(tx, group, actor, code, mailOk) ==
    IF tx.needs_rollback
    THEN \* no query can run any more in this atomic block
         [tx EXCEPT !.errors = Append(@, Err(group.grn, "group_error"))]
    ELSE LET original == GrnById(tx.db.grns, group.grn)
             new_grn  == tx.db.nextId.grn
             created  == [tx EXCEPT
                            !.db.grns = @ \cup
                                {[id |-> new_grn, receiver |-> original.receiver,
                                  delivery_location |-> user_location(actor),
                                  created_by |-> actor,
                                  place |-> original.delivery_location]},
                            !.db.nextId.grn = @ + 1,
                            !.failed = FALSE]
             moved    == MoveLines(created, group.lines, new_grn, actor)
             renum    == Renumber(Renumber(moved, group.grn), new_grn)
             done     == IssueTransferOtp(renum, new_grn, code, mailOk)
         IN  IF done.failed
             THEN [done EXCEPT !.errors = Append(@, Err(group.grn, "group_error"))]
             ELSE done

RECURSIVE ProcessGroups(_, _, _, _, _, _)
ProcessGroups(tx, groups, k, actor, codes, mailOks) ==
    IF k > Len(groups) THEN tx
    ELSE ProcessGroups(ProcessGroup(tx, groups[k], actor, codes[k], mailOks[k]),
                       groups, k + 1, actor, codes, mailOks)

\* warehouse_inward_process; codes[k] and mailOks[k] are the generated code
\* and the fate of the mail of the k-th processed GRN
WarehouseInwardRun(actor, sel, codes, mailOks) ==
    IF sel = <<>> THEN Out(DB, Resp("no_selection"))
    ELSE IF user_location(actor) = NoLoc THEN Out(DB, Resp("no_location"))
    ELSE LET v  == ValidateLines(sel, [errors |-> <<>>, groups |-> <<>>])
             tx == ProcessGroups(
                       [db |-> DB, needs_rollback |-> FALSE, failed |-> FALSE,
                        count |-> 0, errors |-> v.errors, new_grns |-> <<>>,
                        mails |-> <<>>, saved |-> <<>>],
                       v.groups, 1, actor, codes, mailOks)
         IN  Out(IF tx.needs_rollback THEN Rollback(DB, tx.db) ELSE tx.db,
                 [result |-> IF tx.count > 0 THEN "ok" ELSE "none_processed",
                  count |-> tx.count, errors |-> tx.errors,
                  new_grns |-> tx.new_grns, mails |-> tx.mails,
                  saved |-> tx.saved])

\* the number of original GRNs a selection makes the handler process
NumGroups(sel) == Len(ValidateLines(sel, [errors |-> <<>>, groups |-> <<>>]).groups)

WarehouseInward(actor, sel, codes, mailOks) ==
    /\ Len(codes) = NumGroups(sel)
    /\ Len(mailOks) = NumGroups(sel)
    /\ nextId.grn + NumGroups(sel) - 1 <= MaxGrns
    /\ Apply(WarehouseInwardRun(actor, sel, codes, mailOks))

\* ------------------------------------------------------------ stage 2: floor
\* every item taken as not yet on a floor
is_on_floor_never(w) == FALSE

\* WarehouseInward.is_on_floor
is_on_floor(w) == w.floor # NoFloor /\ w.floor # ""

\* the two tests of the property in the other order
stage_floor_first(w) ==
    IF is_on_floor(w) THEN "on_floor"
    ELSE IF w.delivered_to_receiver THEN "delivered"
    ELSE "received"

\* WarehouseInward.stage
stage(w) ==
    IF w.delivered_to_receiver THEN "delivered"
    ELSE IF is_on_floor(w) THEN "on_floor"
    ELSE "received"

InwardById(ws, id) == CHOOSE w \in ws : w.id = id

FloorRequests ==
    {[floor |-> "F1", rack |-> "R1", remark |-> "shelved"],
     [floor |-> "F2", rack |-> "", remark |-> ""],
     [floor |-> "", rack |-> "R1", remark |-> ""]}

RECURSIVE AssignLoop(_, _, _, _)
AssignLoop(tx, sel, actor, req) ==
    IF sel = <<>> THEN tx
    ELSE LET id == Head(sel) IN
         IF ~\E w \in tx.db.inwards : w.id = id
         THEN AssignLoop([tx EXCEPT !.errors = Append(@, Err(id, "not_found"))],
                         Tail(sel), actor, req)
         ELSE LET w == InwardById(tx.db.inwards, id) IN
              IF is_on_floor(w)
              THEN AssignLoop(
                       [tx EXCEPT !.errors = Append(@, Err(id, "already_on_floor"))],
                       Tail(sel), actor, req)
              ELSE AssignLoop(
                       [tx EXCEPT
                          !.db.inwards = (@ \ {w}) \cup
                              {[w EXCEPT !.floor = req.floor, !.rack = req.rack,
                                         !.assigned_to_floor_by = actor,
                                         !.assigned_to_floor_at = now,
                                         !.floor_remark = req.remark]},
                          !.count = @ + 1],
                       Tail(sel), actor, req)

AssignToFloorRun(actor, sel, req) ==
    IF sel = <<>> THEN Out(DB, Resp("no_selection"))
    ELSE IF req.floor = "" THEN Out(DB, Resp("floor_required"))
    ELSE LET tx == AssignLoop([db |-> DB, count |-> 0, errors |-> <<>>],
                              sel, actor, req)
         IN  Out(tx.db,
                 [Resp(IF tx.count > 0 THEN "ok" ELSE "none_processed") EXCEPT
                    !.count = tx.count, !.errors = tx.errors])

AssignToFloor(actor, sel, req) ==
    /\ req \in FloorRequests
    /\ Apply(AssignToFloorRun(actor, sel, req))

\* ------------------------------------------------------------ stage 3: delivery
RECURSIVE DeliverLoop(_, _, _)
DeliverLoop(tx, sel, actor) ==
    IF sel = <<>> THEN tx
    ELSE LET id == Head(sel) IN
         IF ~\E w \in tx.db.inwards : w.id = id
         THEN DeliverLoop([tx EXCEPT !.errors = Append(@, Err(id, "not_found"))],
                          Tail(sel), actor)
         ELSE LET w == InwardById(tx.db.inwards, id) IN
              IF w.delivered_to_receiver
              THEN DeliverLoop(
                       [tx EXCEPT !.errors = Append(@, Err(id, "already_delivered"))],
                       Tail(sel), actor)
              ELSE IF HasDN(tx.db.dns, w.grn_line)
              THEN DeliverLoop(
                       [tx EXCEPT !.errors = Append(@, Err(id, "dn_exists"))],
                       Tail(sel), actor)
              ELSE DeliverLoop(
                       [tx EXCEPT
                          !.db = CreateDNs(
                                   [@ EXCEPT !.inwards = (@ \ {w}) \cup
                                        {[w EXCEPT !.delivered_to_receiver = TRUE]}],
                                   <<LineById(tx.db.lines, w.grn_line)>>, TRUE),
                          !.count = @ + 1],
                       Tail(sel), actor)

FloorDeliveryRun(actor, sel) ==
    IF sel = <<>> THEN Out(DB, Resp("no_selection"))
    ELSE LET tx == DeliverLoop([db |-> DB, count |-> 0, errors |-> <<>>],
                               sel, actor)
         IN  Out(tx.db,
                 [Resp(IF tx.count > 0 THEN "ok" ELSE "none_processed") EXCEPT
                    !.count = tx.count, !.errors = tx.errors])

FloorDelivery(actor, sel) ==
    /\ Len(sel) <= MaxSel
    /\ Apply(FloorDeliveryRun(actor, sel))

\* ------------------------------------------------------------ two requests at once
\* A request served next to another one makes its precondition reads, and
\* later runs its writes in one transaction that the database commits or
\* rolls back as a whole; the other request may commit in between.

\* the six tables take the values a transaction leaves
Write(d) ==
    /\ grns' = d.grns
    /\ lines' = d.lines
    /\ otps' = d.otps
    /\ dns' = d.dns
    /\ inwards' = d.inwards
    /\ nextId' = d.nextId

\* no request is being served
Quiet == \A w \in Workers : reqs[w].phase = "idle"

\* the workers take their requests in order
MayBegin(w) ==
    /\ reqs[w].phase = "idle"
    /\ \A v \in Workers : v < w => reqs[v].phase # "idle"

\* otp.save(): the row of that primary key takes the fields of the object
SaveOtp(os, o) == {x \in os : x.id # o.id} \cup {o}

\* the one-to-one constraint on DN.grn_line not enforced
DNUniqueViolationOff(ds, lid) == FALSE

\* grn_line = OneToOneField(GRNLine): an insert of a second DN of a line
\* raises IntegrityError
DNUniqueViolation(ds, lid) == HasDN(ds, lid)

\* a row written with a foreign key to a row that a transaction committed
\* meanwhile has deleted raises IntegrityError, at the write or when the
\* transaction commits
ForeignKeyViolation(ids, id) == id \notin ids

\* verify_otp up to the test of undelivered_lines.exists()
VerifyBegin(w, actor, code) ==
    /\ MayBegin(w)
    /\ code \in Codes
    /\ LET out == OTPVerifyRun(actor, code, 0) IN
       reqs' = [reqs EXCEPT ![w] =
           IF out.resp.result # "ok"
           THEN Request("verify", "refused", actor, <<code>>, <<>>, out.resp)
           ELSE LET o == CHOOSE x \in MatchingOtps(otps, code) : TRUE IN
                Request("verify", "read", actor, <<code>>,
                        [otp |-> o,
                         und |-> OrderByLineNumber(
                                     UndeliveredLines(lines, dns, o.grn))],
                        Resp("none"))]
    /\ UNCHANGED <<grns, lines, otps, dns, inwards, nextId, session, now>>

\* the atomic block of verify_otp over the lines its queryset returned
VerifyTransaction(o, lns) ==
    IF \/ \E k \in 1..Len(lns) : DNUniqueViolation(dns, lns[k].id)
       \/ \E k \in 1..Len(lns) :
             ForeignKeyViolation({l.id : l \in lines}, lns[k].id)
       \/ \* otp.save() of a row that is gone inserts it again
          ForeignKeyViolation(GrnIds(grns), o.grn)
    THEN \* IntegrityError leaves the block, caught by the generic handler
         Out(Rollback(DB, CreateDNs(DB, lns, FALSE)), Resp("error"))
    ELSE Out([CreateDNs(DB, lns, FALSE) EXCEPT
                !.otps = SaveOtp(@, [o EXCEPT !.valid = FALSE])],
             [Resp("ok") EXCEPT !.count = Len(lns),
                                !.saved = [k \in 1..Len(lns) |-> lns[k].id]])

\* the atomic block of verify_otp; the lazy queryset undelivered_lines is
\* evaluated again by the loop, and returns the rows of its first evaluation
\* (stale) or the rows committed by now
VerifyCommit(w, stale) ==
    /\ reqs[w].kind = "verify"
    /\ reqs[w].phase = "read"
    /\ LET r   == reqs[w]
           lns == IF stale THEN r.read.und
                  ELSE OrderByLineNumber(
                           UndeliveredLines(lines, dns, r.read.otp.grn))
           out == VerifyTransaction(r.read.otp, lns)
       IN  /\ Write(out.db)
           /\ reqs' = [reqs EXCEPT ![w] =
                         [r EXCEPT !.phase = "done", !.resp = out.resp]]
    /\ UNCHANGED <<session, now>>

\* the loop of warehouse_floor_delivery: tx.view is what the request has
\* read (and written), tx.db the database its writes go to
RECURSIVE DeliverItems(_, _, _)
DeliverItems(tx, sel, actor) ==
    IF sel = <<>> THEN tx
    ELSE LET id == Head(sel) IN
         IF tx.needs_rollback
         THEN \* no query can run any more in this atomic block
              DeliverItems([tx EXCEPT !.errors = Append(@, Err(id, "error"))],
                           Tail(sel), actor)
         ELSE IF ~\E x \in tx.view.inwards : x.id = id
         THEN DeliverItems([tx EXCEPT !.errors = Append(@, Err(id, "not_found"))],
                           Tail(sel), actor)
         ELSE LET x == InwardById(tx.view.inwards, id) IN
              IF x.delivered_to_receiver
              THEN DeliverItems(
                       [tx EXCEPT !.errors = Append(@, Err(id, "already_delivered"))],
                       Tail(sel), actor)
              ELSE IF HasDN(tx.view.dns, x.grn_line)
              THEN DeliverItems(
                       [tx EXCEPT !.errors = Append(@, Err(id, "dn_exists"))],
                       Tail(sel), actor)
              ELSE LET row == [x EXCEPT !.delivered_to_receiver = TRUE]
                       dn  == [id |-> tx.db.nextId.dn, grn_line |-> x.grn_line,
                               from_warehouse_inward |-> TRUE]
                       kept == [tx EXCEPT
                                  !.db.inwards = {y \in @ : y.id # id} \cup {row},
                                  !.view.inwards = {y \in @ : y.id # id} \cup {row}]
                   IN  IF \/ DNUniqueViolation(tx.db.dns, x.grn_line)
                          \/ ForeignKeyViolation({l.id : l \in tx.db.lines},
                                                 x.grn_line)
                       THEN DeliverItems(
                                [kept EXCEPT !.needs_rollback = TRUE,
                                             !.errors = Append(@, Err(id, "error"))],
                                Tail(sel), actor)
                       ELSE DeliverItems(
                                [kept EXCEPT !.db.dns = @ \cup {dn},
                                             !.view.dns = @ \cup {dn},
                                             !.db.nextId.dn = @ + 1,
                                             !.count = @ + 1,
                                             !.saved = Append(@, x.grn_line)],
                                Tail(sel), actor)

\* warehouse_floor_delivery up to its reads
DeliveryBegin(w, actor, sel) ==
    /\ MayBegin(w)
    /\ Len(sel) <= MaxSel
    /\ reqs' = [reqs EXCEPT ![w] =
           IF sel = <<>>
           THEN Request("deliver", "refused", actor, sel, <<>>, Resp("no_selection"))
           ELSE Request("deliver", "read", actor, sel,
                        [inwards |-> inwards, dns |-> dns], Resp("none"))]
    /\ UNCHANGED <<grns, lines, otps, dns, inwards, nextId, session, now>>

\* the atomic block of warehouse_floor_delivery and its answer
DeliveryTransaction(actor, sel, view) ==
    LET tx == DeliverItems([db |-> DB, view |-> view, needs_rollback |-> FALSE,
                            count |-> 0, errors |-> <<>>, saved |-> <<>>],
                           sel, actor)
    IN  Out(IF tx.needs_rollback THEN Rollback(DB, tx.db) ELSE tx.db,
            [Resp(IF tx.count > 0 THEN "ok" ELSE "none_processed") EXCEPT
               !.count = tx.count, !.errors = tx.errors, !.saved = tx.saved])

DeliveryCommit(w) ==
    /\ reqs[w].kind = "deliver"
    /\ reqs[w].phase = "read"
    /\ LET r   == reqs[w]
           out == DeliveryTransaction(r.actor, r.sel, r.read)
       IN  /\ Write(out.db)
           /\ reqs' = [reqs EXCEPT ![w] =
                         [r EXCEPT !.phase = "done", !.resp = out.resp]]
    /\ UNCHANGED <<session, now>>

\* warehouse_inward_process up to the end of its validation loop
InwardBegin(w, actor, sel) ==
    /\ MayBegin(w)
    /\ Len(sel) <= MaxSel
    /\ reqs' = [reqs EXCEPT ![w] =
           IF sel = <<>>
           THEN Request("inward", "refused", actor, sel, <<>>, Resp("no_selection"))
           ELSE IF user_location(actor) = NoLoc
           THEN Request("inward", "refused", actor, sel, <<>>, Resp("no_location"))
           ELSE Request("inward", "read", actor, sel,
                        ValidateLines(sel, [errors |-> <<>>, groups |-> <<>>]),
                        Resp("none"))]
    /\ UNCHANGED <<grns, lines, otps, dns, inwards, nextId, session, now>>

\* the loop over grns_to_process of warehouse_inward_process, run on the line
\* objects v that its validation read, and its answer
InwardTransaction(actor, v, codes, mailOks) ==
    LET tx == ProcessGroups(
                  [db |-> DB, needs_rollback |-> FALSE, failed |-> FALSE,
                   count |-> 0, errors |-> v.errors, new_grns |-> <<>>,
                   mails |-> <<>>, saved |-> <<>>],
                  v.groups, 1, actor, codes, mailOks)
    IN  Out(IF tx.needs_rollback THEN Rollback(DB, tx.db) ELSE tx.db,
            [result |-> IF tx.count > 0 THEN "ok" ELSE "none_processed",
             count |-> tx.count, errors |-> tx.errors,
             new_grns |-> tx.new_grns, mails |-> tx.mails,
             saved |-> tx.saved])

\* a GRN row a request inserts before its transaction fails takes an id too
InwardCommit(w, codes, mailOks) ==
    /\ reqs[w].kind = "inward"
    /\ reqs[w].phase = "read"
    /\ Len(codes) = Len(reqs[w].read.groups)
    /\ Len(mailOks) = Len(reqs[w].read.groups)
    /\ nextId.grn + Len(reqs[w].read.groups) - 1 <= MaxGrns + 1
    /\ LET r   == reqs[w]
           out == InwardTransaction(r.actor, r.read, codes, mailOks)
       IN  /\ Write(out.db)
           /\ reqs' = [reqs EXCEPT ![w] =
                         [r EXCEPT !.phase = "done", !.resp = out.resp]]
    /\ UNCHANGED <<session, now>>

\* delete_grn up to the count of the lines, before its atomic block
DeleteBegin(w, actor, pk) ==
    /\ MayBegin(w)
    /\ pk \in 1..MaxGrns
    /\ LET out == GRNDeleteRun(actor, pk) IN
       reqs' = [reqs EXCEPT ![w] =
           IF out.resp.result # "ok"
           THEN Request("delete", "refused", actor, <<pk>>, <<>>, out.resp)
           ELSE Request("delete", "read", actor, <<pk>>,
                        [pk |-> pk, total_lines |-> total_lines(lines, pk)],
                        Resp("none"))]
    /\ UNCHANGED <<grns, lines, otps, dns, inwards, nextId, session, now>>

\* the atomic block of delete_grn: grn.delete() collects and deletes the
\* rows that hang on the GRN when it runs
DeleteCommit(w) ==
    /\ reqs[w].kind = "delete"
    /\ reqs[w].phase = "read"
    /\ LET r == reqs[w] IN
       /\ Write(CascadeDelete(DB, r.read.pk))
       /\ reqs' = [reqs EXCEPT ![w] =
                     [r EXCEPT !.phase = "done",
                               !.resp = [Resp("ok") EXCEPT
                                           !.count = r.read.total_lines]]]
    /\ UNCHANGED <<session, now>>

\* ------------------------------------------------------------ specifications
\* the requests, issued one at a time, each with every input it takes; the
\* clock stands still and the admin has selected no location
Next ==
    \/ \E actor \in Users, receiver \in Receivers, loc \in Locations \cup {NoLoc},
          rows \in RowSeqs, code \in Codes, mailOk \in BOOLEAN :
          GRNCreate(actor, receiver, loc, rows, code, mailOk)
    \/ \E actor \in Users, pk \in 1..MaxGrns : GRNDelete(actor, pk)
    \/ \E actor \in Users, code \in Codes, grn_id \in 1..MaxGrns :
          OTPVerify(actor, code, grn_id)
    \/ \E actor \in Users, grn_id \in 1..MaxGrns, code \in Codes, mailOk \in BOOLEAN :
          ResendOTP(actor, grn_id, code, mailOk)
    \/ \E actor \in InwardUsers, sel \in SelSeqs(1..MaxLines),
          codes \in SelSeqs(Codes), mailOks \in SelSeqs(BOOLEAN) :
          WarehouseInward(actor, sel, codes, mailOks)
    \/ \E actor \in FloorUsers, sel \in SelSeqs(1..MaxLines), req \in FloorRequests :
          AssignToFloor(actor, sel, req)
    \/ \E actor \in FloorUsers, sel \in SelSeqs(1..MaxLines) :
          FloorDelivery(actor, sel)

Spec == Init /\ [][Next]_vars

\* issue, resend, deletion, transfer and redemption as time passes and the
\* admin changes the selected location; every mail is delivered
NextAccess ==
    \/ \E loc \in Locations : ChangeLocation(loc)
    \/ \E d \in TickSteps : Tick(d)
    \/ \E actor \in Users, receiver \in Receivers, loc \in Locations,
          rows \in RowSeqs, code \in Codes :
          GRNCreate(actor, receiver, loc, rows, code, TRUE)
    \/ \E actor \in Users, pk \in 1..MaxGrns : GRNDelete(actor, pk)
    \/ \E actor \in Users, code \in Codes, grn_id \in 1..MaxGrns :
          OTPVerify(actor, code, grn_id)
    \/ \E actor \in Users, grn_id \in 1..MaxGrns, code \in Codes :
          ResendOTP(actor, grn_id, code, TRUE)
    \/ \E sel \in SelSeqs(1..MaxLines), codes \in SelSeqs(Codes) :
          WarehouseInward("recep", sel, codes, [k \in 1..Len(codes) |-> TRUE])
    \/ \E sel \in SelSeqs(1..MaxLines) : FloorDelivery("recep", sel)

SpecAccess == Init /\ [][NextAccess]_vars

\* two requests served side by side on GRNs made ready by requests served
\* alone: each makes its reads, and commits after any number of steps of the
\* other; every mail is delivered
NextRace ==
    \/ /\ Quiet
       /\ \E receiver \in Receivers, loc \in Locations, rows \in RowSeqs,
             code \in Codes :
             GRNCreate("admin", receiver, loc, rows, code, TRUE)
    \/ /\ Quiet
       /\ \E sel \in SelSeqs(1..MaxLines), codes \in SelSeqs(Codes) :
             WarehouseInward("recep", sel, codes, [k \in 1..Len(codes) |-> TRUE])
    \/ \E w \in Workers, code \in Codes : VerifyBegin(w, "admin", code)
    \/ \E w \in Workers, stale \in BOOLEAN : VerifyCommit(w, stale)
    \/ \E w \in Workers, sel \in SelSeqs(1..MaxLines) : DeliveryBegin(w, "recep", sel)
    \/ \E w \in Workers : DeliveryCommit(w)
    \/ \E w \in Workers, sel \in SelSeqs(1..MaxLines) : InwardBegin(w, "recep", sel)
    \/ \E w \in Workers, codes \in SelSeqs(Codes) :
          InwardCommit(w, codes, [k \in 1..Len(codes) |-> TRUE])

SpecRace == Init /\ [][NextRace]_vars

\* a deletion served next to a redemption or a delivery from the floor, on
\* GRNs made ready by requests served alone
NextDelete ==
    \/ /\ Quiet
       /\ \E receiver \in Receivers, loc \in Locations, rows \in RowSeqs,
             code \in Codes :
             GRNCreate("admin", receiver, loc, rows, code, TRUE)
    \/ /\ Quiet
       /\ \E sel \in SelSeqs(1..MaxLines), codes \in SelSeqs(Codes) :
             WarehouseInward("recep", sel, codes, [k \in 1..Len(codes) |-> TRUE])
    \/ \E w \in Workers, code \in Codes : VerifyBegin(w, "admin", code)
    \/ \E w \in Workers, stale \in BOOLEAN : VerifyCommit(w, stale)
    \/ \E w \in Workers, sel \in SelSeqs(1..MaxLines) : DeliveryBegin(w, "recep", sel)
    \/ \E w \in Workers : DeliveryCommit(w)
    \/ \E w \in Workers, pk \in 1..MaxGrns : DeleteBegin(w, "admin", pk)
    \/ \E w \in Workers : DeleteCommit(w)

SpecDelete == Init /\ [][NextDelete]_vars
\* ------------------------------------------------------------ properties
DnsOf(ds, lid) == {d \in ds : d.grn_line = lid}

DnOf(ds, lid) == CHOOSE d \in ds : d.grn_line = lid

\* the line numbers of GRN g are exactly 1..N, N its number of lines
Dense(ls, g) ==
    /\ {l.line_number : l \in LinesOf(ls, g)} = 1..total_lines(ls, g)
    /\ \A l1, l2 \in LinesOf(ls, g) : l1.line_number = l2.line_number => l1 = l2

\* C1: in every reachable state the line numbers of the lines of each GRN
\* are exactly 1..N, N being the number of lines the GRN has: no duplicate
\* and no gap, and every line belongs to an existing GRN
C1_DenseLineNumbers ==
    /\ \A g \in grns : Dense(lines, g.id)
    /\ \A l \in lines : l.grn \in GrnIds(grns)

\* stage 1 split a warehouse GRN: the line it left behind was created after
\* the moved one, and is now number 1 of the source GRN
C1_Witness ==
    \E l \in lines, m \in lines :
        /\ HasInward(inwards, l.id)
        /\ GrnById(grns, l.grn).place # NoLoc
        /\ is_warehouse(GrnById(grns, m.grn).delivery_location)
        /\ m.id > l.id
        /\ m.line_number = 1

\* C2: in every reachable state each line has at most one DN
C2_AtMostOneDN ==
    \A d1, d2 \in dns : d1.grn_line = d2.grn_line => d1 = d2

\* a redemption acted on a GRN one of whose lines stage 3 had delivered
C2_Witness ==
    \E o \in otps, l1, l2 \in lines :
        /\ ~o.valid
        /\ l1.grn = o.grn /\ l2.grn = o.grn
        /\ \E d \in dns : d.grn_line = l1.id /\ d.from_warehouse_inward
        /\ \E d \in dns : d.grn_line = l2.id /\ ~d.from_warehouse_inward

\* ---- verify_otp
\* the actor passes the admin gate of the view and the location check
Permitted(actor, g) ==
    /\ is_staff(actor)
    /\ has_location_permission(actor, GrnById(grns, g).delivery_location, session)

\* OTP row o can be redeemed now: valid, not older than 24 hours, and its GRN
\* has a line without DN
Redeemable(o) ==
    /\ o.valid
    /\ now <= o.created_at + ExpiryHours
    /\ \E l \in lines : l.grn = o.grn /\ ~\E d \in dns : d.grn_line = l.id

\* what the redemption of o is to leave, given the outcome of the request
VerifyEffect(o, out) ==
    LET created == out.db.dns \ dns IN
    /\ dns \subseteq out.db.dns
    /\ {d.grn_line : d \in created} =
           {l.id : l \in {x \in lines : x.grn = o.grn /\ ~\E d \in dns : d.grn_line = x.id}}
    /\ \A d \in created : ~d.from_warehouse_inward
    /\ \A d1, d2 \in out.db.dns : d1.grn_line = d2.grn_line => d1 = d2
    /\ out.db.otps = (otps \ {o}) \cup {[o EXCEPT !.valid = FALSE]}
    /\ out.db.lines = lines /\ out.db.grns = grns /\ out.db.inwards = inwards

\* C3 as stated: a verify_otp with a code matching a valid, unexpired OTP, by
\* a permitted actor, on a GRN with an undelivered line, creates a DN with
\* from_warehouse_inward = FALSE for exactly the lines of that GRN that lacked
\* one, leaves every existing DN, creates none elsewhere and invalidates the OTP
C3_AsStated ==
    \A actor \in Users, code \in Codes, grn_id \in 1..MaxGrns :
      \A o \in otps :
        (o.otp = code /\ Redeemable(o) /\ Permitted(actor, o.grn))
            => VerifyEffect(o, OTPVerifyRun(actor, code, grn_id))

\* C3 (amended): the same, for a code that matches exactly one OTP row with
\* valid = TRUE
C3_RedemptionEffect ==
    \A actor \in Users, code \in Codes, grn_id \in 1..MaxGrns :
      \A o \in otps :
        (/\ o.otp = code /\ Redeemable(o) /\ Permitted(actor, o.grn)
         /\ \A p \in otps : (p.otp = code /\ p.valid) => p = o)
            => VerifyEffect(o, OTPVerifyRun(actor, code, grn_id))

\* a redemption acted on a GRN after stage 3 had delivered a sibling line:
\* the older DN is the one of stage 3
C3_Witness ==
    \E o \in otps, d1, d2 \in dns :
        /\ ~o.valid
        /\ d1.from_warehouse_inward /\ ~d2.from_warehouse_inward
        /\ d1.id < d2.id
        /\ LineById(lines, d1.grn_line).grn = o.grn
        /\ LineById(lines, d2.grn_line).grn = o.grn

\* C4: in the state a successful redemption of a code leaves, redeeming the
\* same code again is answered as not found and leaves every table as it is
C4_SecondRedemptionNotFound ==
    [][\A actor \in Users, code \in Codes, grn_id \in 1..MaxGrns :
          (/\ OTPVerifyRun(actor, code, grn_id).resp.result = "ok"
           /\ DB' = OTPVerifyRun(actor, code, grn_id).db
           /\ UNCHANGED <<session, now>>)
              => \A again \in {u \in Users : is_staff(u)} :
                    /\ OTPVerifyRun(again, code, grn_id)'.resp.result = "not_found"
                    /\ OTPVerifyRun(again, code, grn_id)'.db = DB']_vars

\* a code was redeemed: its OTP row is spent, every line of its GRN carries
\* a DN, and no row with valid = TRUE holds the code
C4_Witness ==
    \E o \in otps :
        /\ ~o.valid
        /\ \E l \in lines : l.grn = o.grn
        /\ \A l \in lines : l.grn = o.grn =>
               \E d \in dns : d.grn_line = l.id /\ ~d.from_warehouse_inward
        /\ ~\E p \in otps : p.otp = o.otp /\ p.valid

\* ---- DN
\* C5: no step removes a DN or the line a DN belongs to
C5_DNPermanent ==
    [][\A d \in dns : d \in dns' /\ \E l \in lines' : l.id = d.grn_line]_vars

\* a GRN holds a delivered line next to an undelivered one while another
\* GRN exists: deletions, redemptions, resends and the stages all apply
C5_Witness ==
    \E l1, l2 \in lines :
        /\ l1.grn = l2.grn
        /\ \E d \in dns : d.grn_line = l1.id
        /\ ~\E d \in dns : d.grn_line = l2.id
        /\ \E g \in grns : g.id # l1.grn

\* ---- warehouse stages and delivered lines
\* the stage 1 requests the model issues in the current state
InwardInputs ==
    {in \in [actor : InwardUsers, sel : SelSeqs(1..MaxLines),
              codes : SelSeqs(Codes), mailOks : SelSeqs(BOOLEAN)] :
        /\ Len(in.codes) = NumGroups(in.sel)
        /\ Len(in.mailOks) = NumGroups(in.sel)
        /\ nextId.grn + NumGroups(in.sel) - 1 <= MaxGrns}

InwardOut(in) == WarehouseInwardRun(in.actor, in.sel, in.codes, in.mailOks)

Selected(sel) == {sel[k] : k \in 1..Len(sel)}

\* C6: a line with a DN that is selected for stage 1 stays in its GRN, gets no
\* WarehouseInward record, and is reported in the errors of the request
C6_InwardRefusesDelivered ==
    \A in \in InwardInputs :
      \A l \in lines :
        (l.id \in Selected(in.sel) /\ user_location(in.actor) # NoLoc
         /\ \E d \in dns : d.grn_line = l.id)
            => /\ l \in InwardOut(in).db.lines
               /\ \A w \in InwardOut(in).db.inwards :
                     w.grn_line = l.id => w \in inwards
               /\ \E k \in 1..Len(InwardOut(in).resp.errors) :
                     InwardOut(in).resp.errors[k].item = l.id

\* C7: assign_to_floor on a WarehouseInward whose line has a DN reports the
\* item as an error and leaves its floor, rack and assignment fields as they were
C7_FloorRefusesDelivered ==
    \A actor \in FloorUsers, sel \in SelSeqs(1..MaxLines), req \in FloorRequests :
      \A w \in inwards :
        (w.id \in Selected(sel) /\ req.floor # ""
         /\ \E d \in dns : d.grn_line = w.grn_line)
            => /\ w \in AssignToFloorRun(actor, sel, req).db.inwards
               /\ \E k \in 1..Len(AssignToFloorRun(actor, sel, req).resp.errors) :
                     AssignToFloorRun(actor, sel, req).resp.errors[k].item = w.id

\* ---- stage 1 effect
\* the selected ids stage 1 accepts: an existing line of a GRN at a warehouse
\* without WarehouseInward record
ValidSelected(sel) ==
    {l \in lines : /\ l.id \in Selected(sel)
                   /\ is_warehouse(GrnById(grns, l.grn).delivery_location)
                   /\ ~\E w \in inwards : w.grn_line = l.id}

\* C8: for every source GRN with a valid selected line, after stage 1 the
\* moved lines are lines of one newly created GRN and no longer of the source,
\* source and new GRN are numbered densely, and the new GRN has exactly one
\* OTP, with valid = TRUE
C8_InwardEffect ==
    \A in \in InwardInputs :
      user_location(in.actor) # NoLoc =>
        \A src \in {l.grn : l \in ValidSelected(in.sel)} :
          \E ng \in GrnIds(InwardOut(in).db.grns) \ GrnIds(grns) :
            /\ \A l \in ValidSelected(in.sel) : l.grn = src =>
                  \E m \in InwardOut(in).db.lines : m.id = l.id /\ m.grn = ng
            /\ Dense(InwardOut(in).db.lines, src)
            /\ Dense(InwardOut(in).db.lines, ng)
            /\ \E o \in InwardOut(in).db.otps :
                  /\ o.grn = ng /\ o.valid
                  /\ \A p \in InwardOut(in).db.otps : p.grn = ng => p = o

\* ---- create_grn
\* the create_grn requests the model issues in the current state
CreateInputs ==
    {in \in [actor : Users, receiver : Receivers, loc : Locations \cup {NoLoc},
              rows : RowSeqs, code : Codes, mailOk : BOOLEAN] :
        /\ nextId.grn <= MaxGrns
        /\ nextId.line + Len(RetainedRows(in.rows)) - 1 <= MaxLines}

CreateOut(in) ==
    GRNCreateRun(in.actor, in.receiver, in.loc, in.rows, in.code, in.mailOk)

\* C9: a successful create_grn at a non-warehouse location leaves exactly one
\* OTP row for the new GRN, valid, and sends exactly one notification, with
\* the stored code; at a warehouse it leaves no OTP row and sends nothing
C9_OtpAtCreation ==
    \A in \in CreateInputs :
      CreateOut(in).resp.result = "ok" =>
        \E g \in CreateOut(in).db.grns \ grns :
          LET os == {o \in CreateOut(in).db.otps : o.grn = g.id} IN
          /\ CreateOut(in).db.grns \ grns = {g}
          /\ g.delivery_location = in.loc
          /\ IF is_warehouse(in.loc)
             THEN os = {} /\ CreateOut(in).resp.mails = <<>>
             ELSE \E o \in os :
                    /\ os = {o} /\ o.valid
                    /\ CreateOut(in).resp.mails = <<[grn |-> g.id, otp |-> o.otp]>>

\* create_grn made a GRN with its OTP at a collection point and one without
\* OTP at the warehouse
C9_Witness ==
    \E g1, g2 \in grns :
        /\ g1.place = NoLoc /\ ~is_warehouse(g1.delivery_location)
        /\ \E o \in otps : o.grn = g1.id /\ o.valid
        /\ g2.place = NoLoc /\ is_warehouse(g2.delivery_location)
        /\ ~\E o \in otps : o.grn = g2.id

\* C10: a create_grn whose notification fails leaves no GRN, line or OTP of
\* its own and every existing GRN, line, OTP and DN as it was
C10_MailFailureRollsBack ==
    \A in \in CreateInputs :
      (/\ is_staff(in.actor) /\ ~in.mailOk
       /\ in.loc \in Locations /\ ~is_warehouse(in.loc)
       /\ FormsetValid(in.rows) /\ Len(RetainedRows(in.rows)) > 0)
          => /\ CreateOut(in).resp.result = "error"
             /\ CreateOut(in).db.grns = grns
             /\ CreateOut(in).db.lines = lines
             /\ CreateOut(in).db.otps = otps
             /\ CreateOut(in).db.dns = dns

\* a GRN with a delivered line and a spent OTP exists, and a further
\* create_grn with a line can be issued
C10_Witness ==
    /\ \E o \in otps, l \in lines, d \in dns :
          ~o.valid /\ l.grn = o.grn /\ d.grn_line = l.id
    /\ \E in \in CreateInputs :
          /\ is_staff(in.actor) /\ ~in.mailOk /\ ~is_warehouse(in.loc)
          /\ in.loc \in Locations
          /\ FormsetValid(in.rows) /\ Len(RetainedRows(in.rows)) > 0

\* the positions of the rows the user submitted with one of sender_name,
\* phone, courier_name, parcel_type populated
KeptPositions(rows) ==
    SelectSeq([i \in 1..Len(rows) |-> i], LAMBDA i : rows[i] = "filled")

\* C11: a create_grn whose rows all drop out fails and leaves no GRN, line or
\* OTP and sends no notification; a successful one gives the retained rows
\* the line numbers 1..N in input order
C11_NoLinesAndNumbering ==
    \A in \in CreateInputs :
      is_staff(in.actor) =>
        /\ KeptPositions(in.rows) = <<>> =>
              /\ CreateOut(in).resp.result \in {"no_lines", "invalid"}
              /\ CreateOut(in).db.grns = grns
              /\ CreateOut(in).db.lines = lines
              /\ CreateOut(in).db.otps = otps
              /\ CreateOut(in).resp.mails = <<>>
        /\ CreateOut(in).resp.result = "ok" =>
              \E g \in CreateOut(in).db.grns \ grns :
                LET made  == {l \in CreateOut(in).db.lines : l.grn = g.id}
                    saved == CreateOut(in).resp.saved
                    kept  == KeptPositions(in.rows)
                IN  /\ Len(saved) = Len(kept)
                    /\ Cardinality(made) = Len(kept)
                    /\ \A k \in 1..Len(kept) :
                          /\ saved[k].row = kept[k]
                          /\ \E l \in made : l.id = saved[k].id /\ l.line_number = k

\* a create_grn without lines was the only request so far that wrote: it
\* used up a GRN key and left no row
C11_Witness ==
    /\ grns = {} /\ lines = {} /\ otps = {}
    /\ nextId.grn = 2 /\ nextId.line = 1

\* ---- delete_grn
\* the requests delete_grn can be sent in the current state
DeleteInputs == [actor : Users, pk : GrnIds(grns)]

DeleteOut(in) == GRNDeleteRun(in.actor, in.pk)

\* the GRN, its lines and its OTP are in d as they are now
GrnRemains(d, pk) ==
    /\ GrnById(grns, pk) \in d.grns
    /\ {l \in d.lines : l.grn = pk} = {l \in lines : l.grn = pk}
    /\ {o \in d.otps : o.grn = pk} = {o \in otps : o.grn = pk}

\* for an admin the selected location, for a non-admin their own
EffectiveLocation(actor) ==
    IF is_staff(actor) THEN session ELSE user_location(actor)

\* C12 as stated: delete_grn removes a GRN only when the actor's effective
\* location equals the GRN's delivery location; every other actor and
\* session state fails as forbidden and GRN, lines and OTP remain
C12_AsStated ==
    \A in \in DeleteInputs :
      LET loc == GrnById(grns, in.pk).delivery_location IN
      /\ in.pk \notin GrnIds(DeleteOut(in).db.grns)
            => EffectiveLocation(in.actor) = loc
      /\ EffectiveLocation(in.actor) # loc
            => /\ DeleteOut(in).resp.result \in {"forbidden", "denied"}
               /\ GrnRemains(DeleteOut(in).db, in.pk)

\* an admin who has selected no location, or the GRN's delivery location
MayDelete(actor, loc) ==
    is_staff(actor) /\ (session = NoLoc \/ session = loc)

\* C12 (amended): delete_grn removes a GRN only for an admin whose selected
\* location, if any is selected, is the GRN's delivery location; a non-admin
\* and an admin with another selected location fail as forbidden and GRN,
\* lines and OTP remain
C12_DeleteNeedsLocation ==
    \A in \in DeleteInputs :
      LET loc == GrnById(grns, in.pk).delivery_location IN
      /\ in.pk \notin GrnIds(DeleteOut(in).db.grns) => MayDelete(in.actor, loc)
      /\ ~MayDelete(in.actor, loc)
            => /\ DeleteOut(in).resp.result \in {"forbidden", "denied"}
               /\ GrnRemains(DeleteOut(in).db, in.pk)

\* with a location selected, a GRN of another location exists, and a GRN
\* with lines has been deleted
C12_Witness ==
    /\ session \in Locations
    /\ \E g \in grns : g.delivery_location # session
    /\ \E id \in 1..(nextId.line - 1) : ~\E l \in lines : l.id = id

\* C13: delete_grn on a GRN one of whose lines has a DN fails and leaves
\* every GRN, line, OTP, DN and WarehouseInward record as it was
C13_DeleteRefusesDelivered ==
    \A in \in DeleteInputs :
      (\E l \in lines : l.grn = in.pk /\ \E d \in dns : d.grn_line = l.id)
          => /\ DeleteOut(in).resp.result # "ok"
             /\ MayDelete(in.actor, GrnById(grns, in.pk).delivery_location)
                   => DeleteOut(in).resp.result = "has_delivered"
             /\ DeleteOut(in).db = DB

\* a GRN with an OTP holds a line stage 3 delivered and a line still
\* undelivered, both inwarded
C13_Witness ==
    \E l1, l2 \in lines, o \in otps :
        /\ l1.grn = o.grn /\ l2.grn = o.grn /\ o.valid
        /\ \E d \in dns : d.grn_line = l1.id /\ d.from_warehouse_inward
        /\ ~\E d \in dns : d.grn_line = l2.id
        /\ \E w \in inwards : w.grn_line = l2.id

\* ---- failed redemptions
\* the verify_otp requests the model issues
VerifyInputs == [actor : Users, code : Codes, grn_id : 1..MaxGrns]

VerifyOut(in) == OTPVerifyRun(in.actor, in.code, in.grn_id)

\* the rows with valid = TRUE that hold the code
ValidWithCode(code) == {o \in otps : o.otp = code /\ o.valid}

\* C14: a failed verify_otp creates no DN and leaves every OTP row as it is;
\* the request fails as not found without a valid row for the code, as
\* forbidden for an admin without permission for the GRN's location, as
\* expired after 24 hours (the row keeps valid = TRUE), and as already
\* delivered when no line of the GRN lacks a DN
C14_FailedRedemptionInert ==
    \A in \in VerifyInputs :
      /\ VerifyOut(in).resp.result # "ok"
            => VerifyOut(in).db.dns = dns /\ VerifyOut(in).db.otps = otps
      /\ is_staff(in.actor) =>
            /\ ValidWithCode(in.code) = {}
                  => VerifyOut(in).resp.result = "not_found"
            /\ \A o \in ValidWithCode(in.code) :
                  ValidWithCode(in.code) = {o} =>
                    VerifyOut(in).resp.result =
                      IF ~Permitted(in.actor, o.grn) THEN "forbidden"
                      ELSE IF now > o.created_at + ExpiryHours THEN "expired"
                      ELSE IF ~Redeemable(o) THEN "already_delivered"
                      ELSE "ok"

\* a valid OTP is older than 24 hours, its GRN has an undelivered line, and
\* the admin has selected another location
C14_Witness ==
    \E o \in otps :
        /\ o.valid /\ now > o.created_at + ExpiryHours
        /\ \E l \in lines : l.grn = o.grn /\ ~\E d \in dns : d.grn_line = l.id
        /\ session \in Locations
        /\ session # GrnById(grns, o.grn).delivery_location

\* ---- expiry
\* in the current state a redemption delivers only within 24 hours of the
\* row's created_at and fails as expired after them
ExpiryAtRedemption ==
    \A in \in VerifyInputs :
      \A o \in ValidWithCode(in.code) :
        ValidWithCode(in.code) = {o} =>
          /\ VerifyOut(in).resp.result = "ok" => now <= o.created_at + ExpiryHours
          /\ (Permitted(in.actor, o.grn) /\ now > o.created_at + ExpiryHours)
                => /\ VerifyOut(in).resp.result = "expired"
                   /\ VerifyOut(in).db = DB

\* a step stamps created_at with the clock on every row it creates or
\* regenerates, and clears valid only while it creates a DN
StampedAndLazy ==
    /\ \A p \in otps' :
          (\A o \in otps : o.id = p.id => (o.otp # p.otp \/ o.created_at # p.created_at
                                            \/ (~o.valid /\ p.valid)))
              => p.created_at = now /\ p.valid
    /\ \A o \in otps, p \in otps' :
          (o.id = p.id /\ o.valid /\ ~p.valid)
              => /\ dns' # dns /\ now' = now
                 /\ p = [o EXCEPT !.valid = FALSE]

\* C15: with an integer clock, a verify_otp at time t on a valid OTP delivers
\* only if t <= created_at + 24 and fails as expired for every later t,
\* created_at being the time the row was created or last regenerated; no
\* step but a redemption spends an OTP
C15_ExpiryWindow == [][ExpiryAtRedemption' /\ StampedAndLazy]_vars

\* an OTP stamped at hour 25 has been redeemed while a valid OTP stamped at
\* hour 0 is past its 24 hours
C15_Witness ==
    \E o, p \in otps :
        /\ ~o.valid /\ o.created_at = ExpiryHours + 1
        /\ \E l \in lines, d \in dns : l.grn = o.grn /\ d.grn_line = l.id
        /\ p.valid /\ p.created_at = 0 /\ now > p.created_at + ExpiryHours

\* ---- warehouse stages
\* received < on_floor < delivered
StageRank(st) ==
    CASE st = "received" -> 1
      [] st = "on_floor" -> 2
      [] st = "delivered" -> 3

\* C16: no step lowers the stage of a WarehouseInward in the order
\* received < on_floor < delivered, clears a floor that was set, or turns
\* delivered_to_receiver back to false
C16_StageMonotonic ==
    [][\A w \in inwards, v \in inwards' :
          v.id = w.id =>
            /\ StageRank(stage(v)) >= StageRank(stage(w))
            /\ (w.floor # NoFloor /\ w.floor # "")
                  => (v.floor # NoFloor /\ v.floor # "")
            /\ w.delivered_to_receiver => v.delivered_to_receiver]_vars

\* an item was assigned to a floor and was delivered
C16_Witness ==
    \E w \in inwards :
        /\ w.delivered_to_receiver
        /\ w.floor # NoFloor /\ w.floor # ""
        /\ w.assigned_to_floor_by # NoUser

\* the floor_delivery requests the model issues
DeliveryInputs == [actor : FloorUsers, sel : SelSeqs(1..MaxLines)]

DeliveryOut(in) == FloorDeliveryRun(in.actor, in.sel)

\* C17: floor_delivery on a WarehouseInward whose floor is still empty (stage
\* received) does not deliver it and creates no DN: an item becomes
\* delivered only from stage on_floor
C17_DeliveryOnlyFromFloor ==
    \A in \in DeliveryInputs :
      \A w \in inwards :
        (w.id \in Selected(in.sel) /\ stage(w) = "received")
            => /\ w \in DeliveryOut(in).db.inwards
               /\ \A d \in DeliveryOut(in).db.dns :
                     d.grn_line = w.grn_line => d \in dns

\* the assign_to_floor requests the model issues
AssignInputs == [actor : FloorUsers, sel : SelSeqs(1..MaxLines), req : FloorRequests]

AssignOut(in) == AssignToFloorRun(in.actor, in.sel, in.req)

\* C18: assign_to_floor on a WarehouseInward whose floor is set reports the
\* item as an error and leaves its floor, rack, assigned_to_floor_by,
\* assigned_to_floor_at and floor_remark as they are, whatever floor and rack
\* the request supplies
C18_FirstAssignmentStays ==
    \A in \in AssignInputs :
      \A w \in inwards :
        (w.id \in Selected(in.sel) /\ in.req.floor # ""
         /\ w.floor # NoFloor /\ w.floor # "")
            => /\ w \in AssignOut(in).db.inwards
               /\ \E k \in 1..Len(AssignOut(in).resp.errors) :
                     AssignOut(in).resp.errors[k] = [item |-> w.id, kind |-> "already_on_floor"]

\* two items sit on different floors: each kept its first assignment
C18_Witness ==
    \E w1, w2 \in inwards :
        /\ w1.floor = "F1" /\ w1.rack = "R1"
        /\ w2.floor = "F2" /\ w2.rack = ""

\* C19: stage 1 is best-effort per line: whatever the selected ids (unknown,
\* repeated, of a non-warehouse GRN, already inwarded), each selected line of
\* a warehouse GRN without WarehouseInward is moved to a new GRN and gets
\* its record, and every other selected line stays as it is
C19_InwardBestEffort ==
    \A in \in InwardInputs :
      user_location(in.actor) # NoLoc =>
        /\ \A l \in ValidSelected(in.sel) :
              /\ \E m \in InwardOut(in).db.lines :
                    /\ m.id = l.id
                    /\ m.grn \in GrnIds(InwardOut(in).db.grns) \ GrnIds(grns)
              /\ \E w \in InwardOut(in).db.inwards : w.grn_line = l.id
        /\ \A l \in lines :
              (l.id \in Selected(in.sel) /\ l \notin ValidSelected(in.sel))
                  => /\ l \in InwardOut(in).db.lines
                     /\ Len(InwardOut(in).resp.errors) > 0

\* ---- what the stage commands report
\* the lines that database d holds in another GRN, resp. the
\* WarehouseInward records it holds changed
ChangedLines(d) ==
    {l \in lines : \E m \in d.lines : m.id = l.id /\ m.grn # l.grn}

ChangedInwards(d) == {w \in inwards : w \notin d.inwards}

\* success exactly when an item changed, nothing changed on failure, and on
\* success the reported number is the number of changed items
ReportsTruly(out, changed) ==
    /\ out.resp.result = "ok" <=> changed # {}
    /\ out.resp.result # "ok" => out.db = DB
    /\ out.resp.result = "ok" => out.resp.count = Cardinality(changed)

Stage1ReportsTruly ==
    \A in \in InwardInputs :
      ReportsTruly(InwardOut(in), ChangedLines(InwardOut(in).db))

Stage2ReportsTruly ==
    \A in \in AssignInputs :
      ReportsTruly(AssignOut(in), ChangedInwards(AssignOut(in).db))

Stage3ReportsTruly ==
    \A in \in DeliveryInputs :
      ReportsTruly(DeliveryOut(in), ChangedInwards(DeliveryOut(in).db))

\* C20: each of warehouse_inward, assign_to_floor and floor_delivery reports
\* success exactly when it processed and committed at least one selected
\* item, changes nothing when it reports failure, and on success reports
\* the number of items whose state changed
C20_StagesReportTruly ==
    Stage1ReportsTruly /\ Stage2ReportsTruly /\ Stage3ReportsTruly

\* ------------------------------------------------------------ claims C21..C30
\* the lines a request counted as processed in its answer
Reported(r) == {r.resp.saved[k] : k \in 1..Len(r.resp.saved)}

\* the request's reads found line lid deliverable: a redemption read it among
\* the undelivered lines, a floor delivery read an undelivered inward record
\* of it among the selected ones
Delivering(r, lid) ==
    /\ r.phase \in {"read", "done"}
    /\ \/ /\ r.kind = "verify"
          /\ \E k \in 1..Len(r.read.und) : r.read.und[k].id = lid
       \/ /\ r.kind = "deliver"
          /\ \E x \in r.read.inwards :
                /\ x.id \in Selected(r.sel)
                /\ x.grn_line = lid
                /\ ~x.delivered_to_receiver
                /\ ~HasDN(r.read.dns, lid)

\* C21: when two requests served side by side have both read a line as
\* deliverable (two redemptions, or a redemption and a floor delivery) and
\* both have committed, the line has exactly one DN and at most one of the
\* two answers counts it
C21_OneDeliveryOfContestedLine ==
    \A lid \in 1..MaxLines : \A v, w \in Workers :
        (/\ v # w
         /\ reqs[v].phase = "done" /\ reqs[w].phase = "done"
         /\ reqs[v].kind = "verify"
         /\ Delivering(reqs[v], lid) /\ Delivering(reqs[w], lid))
            => /\ Cardinality(DnsOf(dns, lid)) = 1
               /\ ~(lid \in Reported(reqs[v]) /\ lid \in Reported(reqs[w]))

\* a redemption and a floor delivery read the same line as deliverable; the
\* floor delivery committed it and the redemption met the constraint
C21_Witness ==
    \E lid \in 1..MaxLines : \E v, w \in Workers :
        /\ reqs[v].phase = "done" /\ reqs[w].phase = "done"
        /\ reqs[v].kind = "verify" /\ reqs[w].kind = "deliver"
        /\ Delivering(reqs[v], lid) /\ Delivering(reqs[w], lid)
        /\ lid \in Reported(reqs[w])
        /\ reqs[v].resp.result = "error"

\* the ids of the lines the validation of a stage 1 request accepted
Validated(r) ==
    IF r.kind = "inward" /\ r.phase \in {"read", "done"}
    THEN UNION {{r.read.groups[g].lines[k].id :
                    k \in 1..Len(r.read.groups[g].lines)} :
                g \in 1..Len(r.read.groups)}
    ELSE {}

\* worker w's stage 1 request commits in this step
InwardCommits(w) ==
    /\ reqs[w].kind = "inward"
    /\ reqs[w].phase = "read"
    /\ reqs'[w].phase = "done"

\* a line that two stage 1 requests have both validated and committed has
\* one WarehouseInward record, one row, and is counted by at most one answer
OneInwardOfContestedLine ==
    \A lid \in 1..MaxLines : \A v, w \in Workers :
        (/\ v # w
         /\ reqs[v].phase = "done" /\ reqs[w].phase = "done"
         /\ lid \in Validated(reqs[v]) /\ lid \in Validated(reqs[w]))
            => /\ Cardinality({x \in inwards : x.grn_line = lid}) = 1
               /\ Cardinality({l \in lines : l.id = lid}) = 1
               /\ ~(lid \in Reported(reqs[v]) /\ lid \in Reported(reqs[w]))

\* C22: two stage 1 requests served side by side that validated the same line
\* leave it with one WarehouseInward record in one GRN, and the request that
\* commits after the line was inwarded does not count the line and leaves
\* every table, GRN and OTP included, as it found it
C22_OneInwardOfContestedLine ==
    [][/\ OneInwardOfContestedLine'
       /\ \A w \in Workers : \A lid \in Validated(reqs[w]) :
             (InwardCommits(w) /\ HasInward(inwards, lid))
                => /\ DB' = DB
                   /\ lid \notin Reported(reqs'[w])]_vars

\* C23: a create_grn or verify_otp request of a user who is neither staff nor
\* superuser is rejected and leaves every table as it is: no GRN, line, OTP
\* or DN is created and no OTP row changes
C23_NonAdminRejected ==
    /\ \A in \in CreateInputs :
          (~is_staff(in.actor) /\ ~is_superuser(in.actor))
             => /\ CreateOut(in).resp.result = "denied"
                /\ CreateOut(in).db = DB
    /\ \A in \in VerifyInputs :
          (~is_staff(in.actor) /\ ~is_superuser(in.actor))
             => /\ VerifyOut(in).resp.result = "denied"
                /\ VerifyOut(in).db = DB

\* a code that an admin could redeem now is refused to the receptionist of
\* the GRN's own location
C23_Witness ==
    \E code \in Codes, o \in otps :
        /\ o.otp = code
        /\ OTPVerifyRun("admin", code, o.grn).resp.result = "ok"
        /\ user_location("recep") = GrnById(grns, o.grn).delivery_location
        /\ OTPVerifyRun("recep", code, o.grn).resp.result = "denied"
        /\ OTPVerifyRun("recep", code, o.grn).db = DB

\* C24: every GRN has at most one OTP row
C24_AtMostOneOtp ==
    \A g \in grns : Cardinality(OtpsOf(otps, g.id)) <= 1

\* a warehouse GRN holds an OTP row, which only resend_otp can have created,
\* and a further resend_otp with another code is accepted and leaves that GRN
\* with one row
C24_Witness ==
    \E g \in grns, o \in otps, code \in Codes :
        /\ is_warehouse(g.delivery_location)
        /\ o.grn = g.id /\ o.otp # code
        /\ LET out == ResendOTPRun("admin", g.id, code, TRUE) IN
           /\ out.resp.result = "ok"
           /\ Cardinality(OtpsOf(out.db.otps, g.id)) = 1

\* the stage 1 requests of the current state, whatever the number of GRNs
\* they create
TransferInputs ==
    {in \in [actor : InwardUsers, sel : SelSeqs(1..MaxLines),
              codes : SelSeqs(Codes), mailOks : SelSeqs(BOOLEAN)] :
        /\ in.sel # <<>>
        /\ user_location(in.actor) # NoLoc
        /\ Len(in.codes) = NumGroups(in.sel)
        /\ Len(in.mailOks) = NumGroups(in.sel)}

\* the GRN rows a stage 1 request leaves that were not there before
CreatedGrns(in) == InwardOut(in).db.grns \ grns

\* the ids of the valid selected lines of source GRN src
ValidOf(sel, src) == {l.id : l \in {m \in ValidSelected(sel) : m.grn = src}}

\* C25: a stage 1 request leaves one new GRN for each source GRN with a valid
\* selected line and no other new GRN; the new GRN has the source's receiver,
\* the acting user's location, the acting user as created_by, and exactly
\* the valid selected lines of that source
C25_OneGrnPerSource ==
    \A in \in TransferInputs :
        LET srcs == {l.grn : l \in ValidSelected(in.sel)} IN
        /\ Cardinality(CreatedGrns(in)) = Cardinality(srcs)
        /\ \A src \in srcs : \E g \in CreatedGrns(in) :
              /\ g.receiver = GrnById(grns, src).receiver
              /\ g.delivery_location = user_location(in.actor)
              /\ g.created_by = in.actor
              /\ {m.id : m \in LinesOf(InwardOut(in).db.lines, g.id)}
                    = ValidOf(in.sel, src)

\* the stage 1 requests of the current state that pass the handler's test of
\* the acting user, whoever the user is
AcceptedInputs ==
    {in \in [actor : {u \in Users : user_location(u) # NoLoc},
              sel : SelSeqs(1..MaxLines),
              codes : SelSeqs(Codes), mailOks : SelSeqs(BOOLEAN)] :
        /\ in.sel # <<>>
        /\ Len(in.codes) = NumGroups(in.sel)
        /\ Len(in.mailOks) = NumGroups(in.sel)}

\* C26: every GRN that a stage 1 request creates has a delivery location that
\* is not a warehouse, for every acting user the handler accepts
C26_TransferToCollectionPoint ==
    \A in \in AcceptedInputs :
        \A g \in CreatedGrns(in) : ~is_warehouse(g.delivery_location)

\* the ids in the new_grns list of a stage 1 answer
ReturnedGrns(in) ==
    {InwardOut(in).resp.new_grns[k] : k \in 1..Len(InwardOut(in).resp.new_grns)}

\* C27: the new_grns list of a stage 1 answer holds exactly the ids of the
\* GRNs the request created and committed, whether or not the transfer mail
\* of a GRN was delivered
C27_NewGrnsListed ==
    \A in \in TransferInputs :
        ReturnedGrns(in) = GrnIds(CreatedGrns(in))

\* the longest selection of the stage 1 requests examined for mail failures
MaxBatch == MaxSel + 1

\* the stage 1 requests of the current state with up to MaxBatch selected ids
BatchInputs ==
    {in \in [actor : {"recep"},
              sel : UNION {[1..n -> 1..MaxLines] : n \in 1..MaxBatch},
              codes : SelSeqs(Codes), mailOks : SelSeqs(BOOLEAN)] :
        /\ Len(in.codes) = NumGroups(in.sel)
        /\ Len(in.mailOks) = NumGroups(in.sel)}

\* the GRNs whose transfer mail failed, as the errors list of the answer
\* names them
MailFailures(resp) ==
    {resp.errors[k].item :
        k \in {j \in 1..Len(resp.errors) : resp.errors[j].kind = "otp_error"}}

\* C28: a GRN whose transfer mail failed is committed all the same: it holds
\* selected lines, each with a WarehouseInward record, and one OTP row, with
\* valid = TRUE; the request still answers success
C28_MailFailureKeptInward ==
    \A in \in BatchInputs : \A ng \in MailFailures(InwardOut(in).resp) :
        LET out == InwardOut(in) IN
        /\ out.resp.result = "ok"
        /\ ng \in GrnIds(out.db.grns) \ GrnIds(grns)
        /\ LinesOf(out.db.lines, ng) # {}
        /\ \A l \in LinesOf(out.db.lines, ng) :
              /\ l.id \in Selected(in.sel)
              /\ HasInward(out.db.inwards, l.id)
        /\ \E o \in out.db.otps :
              /\ o.grn = ng /\ o.valid
              /\ \A p \in out.db.otps : p.grn = ng => p = o

\* C29: a WarehouseInward record has delivered_to_receiver = TRUE exactly
\* when its line has a DN with from_warehouse_inward = TRUE, and every DN a
\* redemption creates has from_warehouse_inward = FALSE
C29_DeliveredFlagMatchesDN ==
    /\ \A w \in inwards :
          w.delivered_to_receiver <=>
              \E d \in dns : d.grn_line = w.grn_line /\ d.from_warehouse_inward
    /\ \A in \in VerifyInputs :
          \A d \in VerifyOut(in).db.dns \ dns : ~d.from_warehouse_inward

\* one inwarded line was delivered from the floor, another by a redemption:
\* the first record has the flag and a DN from the warehouse, the second has
\* neither
C29_Witness ==
    \E w1, w2 \in inwards : \E d1, d2 \in dns :
        /\ w1.delivered_to_receiver
        /\ d1.grn_line = w1.grn_line /\ d1.from_warehouse_inward
        /\ ~w2.delivered_to_receiver
        /\ d2.grn_line = w2.grn_line /\ ~d2.from_warehouse_inward

\* the resend_otp requests the model issues
ResendInputs ==
    [actor : Users, grn_id : 1..MaxGrns, code : Codes, mailOk : BOOLEAN]

ResendOut(in) == ResendOTPRun(in.actor, in.grn_id, in.code, in.mailOk)

\* what an accepted resend_otp for GRN g leaves: one row for g, with the new
\* code, valid, stamped with the clock, not expired for the next 24 hours
\* and expired after them; it is the row g had, if it had one, and a row
\* with a new primary key otherwise; the rows of other GRNs are as before
ResendEffect(in, out) ==
    LET g   == in.grn_id
        old == OtpsOf(otps, g)
        new == OtpsOf(out.db.otps, g)
    IN  /\ \E o \in new :
              /\ new = {o}
              /\ o.otp = in.code /\ o.valid /\ o.created_at = now
              /\ \A p \in old : p.id = o.id
              /\ old = {} => o.id \notin {p.id : p \in otps}
              /\ ~is_expired(o, now + ExpiryHours)
              /\ is_expired(o, now + ExpiryHours + 1)
        /\ {p \in out.db.otps : p.grn # g} = {p \in otps : p.grn # g}

C31_DeleteFrame ==
    \A in \in DeleteInputs :
        DeleteOut(in).resp.result = "ok" =>
            LET d    == DeleteOut(in).db
                gone == {l.id : l \in LinesOf(lines, in.pk)}
            IN  /\ d.grns = {g \in grns : g.id # in.pk}
                /\ d.lines = {l \in lines : l.grn # in.pk}
                /\ d.otps = {o \in otps : o.grn # in.pk}
                /\ d.inwards = {w \in inwards : w.grn_line \notin gone}
                /\ d.dns = dns

\* a GRN with an OTP and an inwarded line was deleted: the keys of its line's
\* WarehouseInward record and of its OTP are used up and their rows are gone,
\* while another GRN is still there
C31_Witness ==
    /\ grns # {}
    /\ \E k \in 1..(nextId.inward - 1) : ~\E w \in inwards : w.id = k
    /\ \E k \in 1..(nextId.otp - 1) : ~\E o \in otps : o.id = k

\* C32: when the OTP of a GRN has valid = FALSE, every line of that GRN has
\* a DN
C32_InvalidOtpMeansDelivered ==
    \A o \in otps : ~o.valid => is_delivered(lines, dns, o.grn)

\* a GRN that received two lines in stage 1 was redeemed: its OTP is invalid
\* and both lines have a WarehouseInward record and a DN of the redemption
C32_Witness ==
    \E o \in otps : \E l1, l2 \in lines :
        /\ ~o.valid
        /\ l1.id # l2.id /\ l1.grn = o.grn /\ l2.grn = o.grn
        /\ HasInward(inwards, l1.id) /\ HasInward(inwards, l2.id)
        /\ \E d \in DnsOf(dns, l1.id) : ~d.from_warehouse_inward
        /\ \E d \in DnsOf(dns, l2.id) : ~d.from_warehouse_inward

\* C33: every OTP row belongs to a GRN whose delivery location is not a
\* warehouse, and no line of a warehouse GRN that has not passed stage 1 has
\* a DN
C33_NoOtpAtWarehouse ==
    /\ \A o \in otps :
          ~is_warehouse(GrnById(grns, o.grn).delivery_location)
    /\ \A l \in lines :
          (/\ is_warehouse(GrnById(grns, l.grn).delivery_location)
           /\ ~HasInward(inwards, l.id))
              => ~HasDN(dns, l.id)

\* the valid OTPs of the GRNs that have an invalidated OTP
Revalidated(os_before, os_after) ==
    {p \in os_after : p.valid /\ \E o \in os_before : ~o.valid /\ o.grn = p.grn}

\* resend_otp for a GRN with an invalidated OTP changes nothing and, for an
\* admin who may act on the GRN, answers that the GRN is already delivered
ResendRefused(in) ==
    /\ ResendOut(in).resp.result # "ok"
    /\ ResendOut(in).db = DB
    /\ (is_staff(in.actor) /\ Permitted(in.actor, in.grn_id))
          => ResendOut(in).resp.result = "already_delivered"

\* C34: no step makes valid an OTP of a GRN whose OTP was invalidated, and in
\* the state the step starts from every resend_otp on such a GRN is refused,
\* the GRN being fully delivered
C34_InvalidatedStaysInvalid ==
    [][/\ Revalidated(otps, otps') = {}
       /\ \A in \in ResendInputs :
             (\E o \in otps : ~o.valid /\ o.grn = in.grn_id)
                 => /\ is_delivered(lines, dns, in.grn_id)
                    /\ ResendRefused(in)]_vars

\* an OTP was redeemed and an admin who may act on its GRN asks for a resend
C34_Witness ==
    \E o \in otps : \E in \in ResendInputs :
        /\ ~o.valid /\ o.grn = in.grn_id
        /\ is_staff(in.actor) /\ Permitted(in.actor, in.grn_id) /\ in.mailOk
        /\ ResendOut(in).resp.result = "already_delivered"

\* the lines that have a DN in database d and had none before the request
NewlyDelivered(d) == {x.grn_line : x \in d.dns \ dns}

\* C35: two verify_otp requests of one user with one code and any two values
\* of grn_id have the same outcome, and an accepted one delivers the lines,
\* so far undelivered, of the GRN that owns the valid OTP with the code
C35_GrnIdIgnored ==
    \A in1, in2 \in VerifyInputs :
        (in1.actor = in2.actor /\ in1.code = in2.code)
            => /\ VerifyOut(in1) = VerifyOut(in2)
               /\ VerifyOut(in1).resp.result = "ok"
                     => \E o \in ValidWithCode(in1.code) :
                           NewlyDelivered(VerifyOut(in1).db) =
                               {l.id : l \in UndeliveredLines(lines, dns, o.grn)}

\* a request is accepted whose grn_id names another GRN, one with an
\* undelivered line of its own, than the one that owns the OTP
C35_Witness ==
    \E in \in VerifyInputs : \E o \in ValidWithCode(in.code) :
        /\ VerifyOut(in).resp.result = "ok"
        /\ in.grn_id \in GrnIds(grns) /\ in.grn_id # o.grn
        /\ UndeliveredLines(lines, dns, in.grn_id) # {}
        /\ NewlyDelivered(VerifyOut(in).db) \cap
               {l.id : l \in LinesOf(lines, in.grn_id)} = {}

\* two GRNs hold valid OTPs with the code
SharedCode(code) ==
    \E o1, o2 \in ValidWithCode(code) : o1.grn # o2.grn

\* C36: verify_otp with a code that two GRNs hold in valid OTPs is not
\* accepted and leaves the database as it is, for an admin with the answer of
\* an error; and every DN a redemption creates is on a line of the GRN of
\* the one valid OTP with the code
C36_SharedCodeDeliversNothing ==
    \A in \in VerifyInputs :
        /\ SharedCode(in.code)
              => /\ VerifyOut(in).db = DB
                 /\ VerifyOut(in).resp.result # "ok"
                 /\ AdminRequired(in.actor)
                       => VerifyOut(in).resp.result = "error"
        /\ \A lid \in NewlyDelivered(VerifyOut(in).db) :
              \E o \in ValidWithCode(in.code) :
                  /\ ValidWithCode(in.code) = {o}
                  /\ LineById(lines, lid).grn = o.grn

\* two GRNs with undelivered lines hold redeemable OTPs with one code, and an
\* admin permitted for both presents the code
C36_Witness ==
    \E in \in VerifyInputs : \E o1, o2 \in ValidWithCode(in.code) :
        /\ o1.grn # o2.grn
        /\ Redeemable(o1) /\ Redeemable(o2)
        /\ Permitted(in.actor, o1.grn) /\ Permitted(in.actor, o2.grn)
        /\ AdminRequired(in.actor)
        /\ VerifyOut(in).resp.result = "error"

\* GRN.inwarded_count
inwarded_count(ls, ws, g) ==
    Cardinality({l \in LinesOf(ls, g) : HasInward(ws, l.id)})

\* GRN.inward_status; "none" stands for Python's None
inward_status(gs, ls, ws, g) ==
    IF ~is_warehouse(GrnById(gs, g).delivery_location) THEN "none"
    ELSE IF inwarded_count(ls, ws, g) = 0 THEN "Pending Inward"
    ELSE IF inwarded_count(ls, ws, g) = total_lines(ls, g) THEN "Fully Inwarded"
    ELSE "Partially Inwarded"

\* C37: of each GRN either no line or every line has a WarehouseInward
\* record, inward_status is never 'Partially Inwarded', and a GRN created by
\* create_grn has no inwarded line
C37_AllOrNoneInwarded ==
    \A g \in grns :
        /\ inwarded_count(lines, inwards, g.id) \in {0, total_lines(lines, g.id)}
        /\ inward_status(grns, lines, inwards, g.id) # "Partially Inwarded"
        /\ g.place = NoLoc => inwarded_count(lines, inwards, g.id) = 0

\* stage 1 took one line of a warehouse GRN and left another
C37_Witness ==
    \E g1, g2 \in grns :
        /\ g1.place = NoLoc /\ g2.place # NoLoc
        /\ inward_status(grns, lines, inwards, g1.id) = "Pending Inward"
        /\ total_lines(lines, g1.id) > 0
        /\ total_lines(lines, g2.id) > 0
        /\ inwarded_count(lines, inwards, g2.id) = total_lines(lines, g2.id)
        /\ \E w \in inwards : LineById(lines, w.grn_line).grn = g2.id

\* line l is in the state after the step
Survives(l) == \E m \in lines' : m.id = l.id

\* the row of line l after the step
After(l) == CHOOSE m \in lines' : m.id = l.id

\* the step moves line l to another GRN
Reassigned(l) == Survives(l) /\ After(l).grn # l.grn

Emptied(d) ==
    {g \in grns : LinesOf(lines, g.id) # {} /\ LinesOf(d.lines, g.id) = {}}

\* C39: a stage 1 request leaves every GRN row that was there as it is, with
\* the OTP rows it had (none, if it had none), and a GRN it empties is left
\* with zero lines, is_delivered true and inward_status 'Pending Inward'
C39_SourceGrnKept ==
    \A in \in AcceptedInputs :
        LET d == InwardOut(in).db IN
        /\ grns \subseteq d.grns
        /\ \A g \in grns : OtpsOf(d.otps, g.id) = OtpsOf(otps, g.id)
        /\ \A g \in Emptied(d) :
              /\ total_lines(d.lines, g.id) = 0
              /\ is_delivered(d.lines, d.dns, g.id)
              /\ inward_status(d.grns, d.lines, d.inwards, g.id) = "Pending Inward"

\* stage 1 took every line of a warehouse GRN: the GRN is there without
\* lines and without an OTP, next to the GRN that received its lines
C39_Witness ==
    \E g1, g2 \in grns :
        /\ g1.place = NoLoc /\ g2.place = g1.delivery_location
        /\ g1.id < g2.id
        /\ total_lines(lines, g1.id) = 0
        /\ OtpsOf(otps, g1.id) = {}
        /\ is_delivered(lines, dns, g1.id)
        /\ inward_status(grns, lines, inwards, g1.id) = "Pending Inward"
        /\ total_lines(lines, g2.id) = 2


\* C40: no step of a deletion served next to a redemption or a delivery from
\* the floor removes a DN
C40_DNsNeverShrink ==
    [][dns \subseteq dns']_vars
====
